---- MODULE Spec2Model ----
(***************************************************************************)
(* A model of the go-congress client (package congress): the six          *)
(* single-call operations of Client, the two-call GetMembersByState, the  *)
(* HTTP exchange they perform and encoding/json's decoding of the         *)
(* response envelope into the operation's result.                         *)
(*                                                                         *)
(* One invocation runs at a time.  pc is the position inside the          *)
(* single-call function being executed; the steps are the statements of   *)
(* the function body: NewRequest (+ Header.Add), Do, ReadAll, Unmarshal,  *)
(* the assignment of the named result, and the return.                    *)
(***************************************************************************)
EXTENDS Integers, Sequences, FiniteSets, TLC

VARIABLES
    c,            \* the Client: [Endpoint, Key]
    op,           \* the single-call function being executed ("" when none)
    args,         \* its parameters
    caller,       \* "none", or the call site inside GetMembersByState
    pc,           \* position in the function body
    req,          \* req    (*http.Request)
    resp,         \* resp   (*http.Response)
    body,         \* body   ([]byte, as a JSON document)
    unmarshaled,  \* the envelope json.Unmarshal decodes into
    members,      \* named result: the entity list
    member,       \* named result of GetMember: one MemberDetails
    err,          \* named result: the error
    panicked,     \* an index out of range was evaluated
    outer,        \* GetMembersByState's own named results [members, err]
    returned,     \* what each call made by GetMembersByState returned to it
    ret,          \* what the invocation returned to its caller
    sent,         \* the requests that reached the network, in order
    steps         \* the steps this invocation executed, in order

vars == <<c, op, args, caller, pc, req, resp, body, unmarshaled, members,
          member, err, panicked, outer, returned, ret, sent, steps>>

-----------------------------------------------------------------------------
(* Bounds of the model *)

\* the longest "results" array a response body carries
MaxResults == 3
\* the longest "members" array inside one results group
MaxMembers == 2

(* Inputs *)
GoodEndpoint == "https://api.propublica.org/congress/v1"
\* url.Parse rejects a URL that starts with a colon (missing protocol scheme)
BadEndpoint  == "://api.propublica.org/congress/v1"
Endpoints    == {GoodEndpoint, BadEndpoint}
Keys         == {"KEYgoesHERE123", "KEY2"}
Congresses   == {115}
Chambers     == {"house", "senate"}
States       == {"nj"}
Districts    == {1}
MemberIDs    == {"K000388"}
StatusCodes  == {200, 404, 500}

-----------------------------------------------------------------------------
(* Errors, as the kinds the callee produces *)
Nil               == "nil"
ParseError        == "url.Error: parse"
TransportErr      == "url.Error: Get"
ReadError         == "read error"
SyntaxError       == "json.SyntaxError"
UnmarshalTypeErr  == "json.UnmarshalTypeError"

(* Zero values *)
ZeroEntity   == [ID |-> ""]
ZeroReq      == [Method |-> "", URL |-> "", Header |-> {}]
JAbsent      == [t |-> "absent", elems |-> <<>>]
EmptyBody    == [kind |-> "empty", status |-> "absent", results |-> JAbsent]
ZeroResp     == [StatusCode |-> 0, Body |-> EmptyBody]
ZeroEnvelope == [Status |-> "", Results |-> <<>>]
ZeroArgs     == [congress |-> 0, chamber |-> "", state |-> "", district |-> 0, id |-> ""]
ZeroRet      == [members |-> <<>>, member |-> ZeroEntity, err |-> Nil]

-----------------------------------------------------------------------------
(* fmt.Sprintf: %d of an int, %s of a string *)
Digit(d) ==
    CASE d = 0 -> "0" [] d = 1 -> "1" [] d = 2 -> "2" [] d = 3 -> "3"
      [] d = 4 -> "4" [] d = 5 -> "5" [] d = 6 -> "6" [] d = 7 -> "7"
      [] d = 8 -> "8" [] d = 9 -> "9"

RECURSIVE FormatInt(_)
FormatInt(n) ==
    IF n < 0 THEN "-" \o FormatInt(0 - n)
    ELSE IF n < 10 THEN Digit(n)
    ELSE FormatInt(n \div 10) \o Digit(n % 10)

(* The request URL each operation formats *)
GetMembersURL(cl, a) ==
    cl.Endpoint \o "/" \o FormatInt(a.congress) \o "/" \o a.chamber \o "/members.json"

GetMemberURL(cl, a) ==
    cl.Endpoint \o "/members/" \o a.id \o ".json"

GetChamberMembersByStateURL(cl, a) ==
    cl.Endpoint \o "/members/" \o a.chamber \o "/" \o a.state \o "/current.json"

GetChamberMembersByDistrictURL(cl, a) ==
    cl.Endpoint \o "/members/" \o a.chamber \o "/" \o a.state \o "/"
        \o FormatInt(a.district) \o "/current.json"

GetNewMembersURL(cl, a) ==
    cl.Endpoint \o "/members/new.json"

GetDepartingMembersURL(cl, a) ==
    cl.Endpoint \o "/" \o FormatInt(a.congress) \o "/" \o a.chamber \o "/members/leaving.json"

RequestURL(o, cl, a) ==
    CASE o = "GetMembers"                  -> GetMembersURL(cl, a)
      [] o = "GetMember"                   -> GetMemberURL(cl, a)
      [] o = "GetChamberMembersByState"    -> GetChamberMembersByStateURL(cl, a)
      [] o = "GetChamberMembersByDistrict" -> GetChamberMembersByDistrictURL(cl, a)
      [] o = "GetNewMembers"               -> GetNewMembersURL(cl, a)
      [] o = "GetDepartingMembers"         -> GetDepartingMembersURL(cl, a)

(* http.NewRequest("GET", url, nil): fails when url.Parse does; url.Parse  *)
(* fails with "missing protocol scheme" on a URL whose first byte is ':'.  *)
ParseOK(rawurl) ==
    ~(Len(rawurl) >= 1 /\ SubSeq(rawurl, 1, 1) = ":")

NewRequest(method, rawurl) ==
    IF ParseOK(rawurl)
    THEN [req |-> [Method |-> method, URL |-> rawurl, Header |-> {}], err |-> Nil]
    ELSE [req |-> ZeroReq, err |-> ParseError]

\* HeaderAdd that adds nothing
HeaderAddNothing(r, key, value) ==
    r

(* req.Header.Add("X-API-Key", c.Key) *)
HeaderAdd(r, key, value) ==
    [r EXCEPT !.Header = @ \cup {<<key, value>>}]

\* ReadAll dropping the body of a response that is not a 2xx
ReadAllOf2xxOnly(r) ==
    IF r.StatusCode >= 200 /\ r.StatusCode < 300 THEN r.Body ELSE EmptyBody

(* ioutil.ReadAll(resp.Body), when the read completes *)
ReadAll(r) ==
    r.Body

(* if err != nil { return } *)
ReturnIfErr(e, next) ==
    IF e # Nil THEN "Return" ELSE next

-----------------------------------------------------------------------------
(* Response bodies.  A body is a JSON document (or bytes that are not      *)
(* JSON).  An object body carries "status" and "results"; an element of    *)
(* "results" is an object with an "id", a "member_id" and possibly a       *)
(* "members" array, or a number (a value of the wrong JSON type).          *)
(* Response number n names its entities r<n>e<g> (element g; d<n>e<g> as   *)
(* its "member_id") and r<n>e<g>m<i> (member i of element g), so that      *)
(* every entity of an invocation is distinguishable.                       *)
EntityID(n, g)    == "r" \o FormatInt(n) \o "e" \o FormatInt(g)
DetailsID(n, g)   == "d" \o FormatInt(n) \o "e" \o FormatInt(g)
MemberID(n, g, i) == EntityID(n, g) \o "m" \o FormatInt(i)

JMembers(n, g, k) ==
    [t |-> "array", elems |-> [i \in 1..k |-> [t |-> "object", id |-> MemberID(n, g, i)]]]

Elems(n, g) ==
    {[t |-> "number", id |-> "", member_id |-> "", members |-> JAbsent]}
      \cup {[t |-> "object", id |-> EntityID(n, g), member_id |-> DetailsID(n, g),
             members |-> m] :
                m \in {JAbsent} \cup {JMembers(n, g, k) : k \in 0..MaxMembers}}

RECURSIVE ElemSeqs(_, _)
ElemSeqs(n, k) ==
    IF k = 0 THEN {<<>>}
    ELSE {Append(s, e) : s \in ElemSeqs(n, k - 1), e \in Elems(n, k)}

JResults(n) ==
    {JAbsent, [t |-> "null", elems |-> <<>>], [t |-> "string", elems |-> <<>>]}
      \cup {[t |-> "array", elems |-> es] :
                es \in UNION {ElemSeqs(n, k) : k \in 0..MaxResults}}

Bodies(n) ==
    {[kind |-> "invalid", status |-> "absent", results |-> JAbsent],
     [kind |-> "array",   status |-> "absent", results |-> JAbsent]}
      \cup {[kind |-> "object", status |-> s, results |-> r] :
                s \in {"string", "number"}, r \in JResults(n)}

Responses(n) ==
    {[StatusCode |-> sc, Body |-> b] : sc \in StatusCodes, b \in Bodies(n)}

-----------------------------------------------------------------------------
(* encoding/json: decoding a JSON value into a Go value.  A missing key or *)
(* null leaves the zero value; a value of the wrong JSON type leaves the   *)
(* zero value, records an UnmarshalTypeError and decoding continues; keys  *)
(* the struct has no field for are skipped.                                *)
ZeroGroup == [Members |-> <<>>]

\* Status string `json:"status"`
DecodeStatus(s) ==
    CASE s = "string" -> [v |-> "OK", ok |-> TRUE]
      [] s = "number" -> [v |-> "",   ok |-> FALSE]
      [] OTHER        -> [v |-> "",   ok |-> TRUE]

\* one MemberDetails (ID string `json:"member_id"`)
DecodeMemberDetails(j) ==
    CASE j.t = "object" -> [v |-> [ID |-> j.member_id], ok |-> TRUE]
      [] j.t = "null"   -> [v |-> ZeroEntity,           ok |-> TRUE]
      [] OTHER          -> [v |-> ZeroEntity,           ok |-> FALSE]

\* a slice of MemberDetails
DecodeMemberDetailsList(j) ==
    CASE j.t \in {"absent", "null"} -> [v |-> <<>>, ok |-> TRUE]
      [] j.t = "array" ->
            [v  |-> [i \in 1..Len(j.elems) |-> DecodeMemberDetails(j.elems[i]).v],
             ok |-> \A i \in 1..Len(j.elems) : DecodeMemberDetails(j.elems[i]).ok]
      [] OTHER -> [v |-> <<>>, ok |-> FALSE]

\* one MemberSummary, MemberSearch or MemberInTransition (ID string `json:"id"`)
DecodeEntity(j) ==
    CASE j.t = "object" -> [v |-> [ID |-> j.id], ok |-> TRUE]
      [] j.t = "null"   -> [v |-> ZeroEntity,    ok |-> TRUE]
      [] OTHER          -> [v |-> ZeroEntity,    ok |-> FALSE]

\* a slice of entity structs
DecodeEntities(j) ==
    CASE j.t \in {"absent", "null"} -> [v |-> <<>>, ok |-> TRUE]
      [] j.t = "array" ->
            [v  |-> [i \in 1..Len(j.elems) |-> DecodeEntity(j.elems[i]).v],
             ok |-> \A i \in 1..Len(j.elems) : DecodeEntity(j.elems[i]).ok]
      [] OTHER -> [v |-> <<>>, ok |-> FALSE]

\* one results group (Members []T `json:"members"`)
DecodeGroup(j) ==
    CASE j.t = "object" ->
            LET m == DecodeEntities(j.members)
            IN  [v |-> [Members |-> m.v], ok |-> m.ok]
      [] j.t = "null"   -> [v |-> ZeroGroup, ok |-> TRUE]
      [] OTHER          -> [v |-> ZeroGroup, ok |-> FALSE]

\* a slice of results groups
DecodeGroups(j) ==
    CASE j.t \in {"absent", "null"} -> [v |-> <<>>, ok |-> TRUE]
      [] j.t = "array" ->
            [v  |-> [i \in 1..Len(j.elems) |-> DecodeGroup(j.elems[i]).v],
             ok |-> \A i \in 1..Len(j.elems) : DecodeGroup(j.elems[i]).ok]
      [] OTHER -> [v |-> <<>>, ok |-> FALSE]

(* The envelope type each operation declares for `unmarshaled` *)
EnvelopeOf(o) ==
    CASE o = "GetMembers"                  -> "getMembersResponse"
      [] o = "GetMember"                   -> "getMemberResponse"
      [] o = "GetChamberMembersByState"    -> "getMembersByStateResponse"
      [] o = "GetChamberMembersByDistrict" -> "getMembersByStateResponse"
      [] o = "GetNewMembers"               -> "getMembersInTransitionResponse"
      [] o = "GetDepartingMembers"         -> "getMembersInTransitionResponse"

\* the envelopes whose Results are groups holding a Members list
GroupEnvelopes == {"getMembersResponse", "getMembersInTransitionResponse"}

(* json.Unmarshal(body, &unmarshaled), unmarshaled being the zero envelope *)
JsonUnmarshal(b, envelope) ==
    CASE b.kind = "object" ->
            LET s == DecodeStatus(b.status)
                r == CASE envelope \in GroupEnvelopes      -> DecodeGroups(b.results)
                       [] envelope = "getMemberResponse" -> DecodeMemberDetailsList(b.results)
                       [] OTHER                          -> DecodeEntities(b.results)
            IN  [v   |-> [Status |-> s.v, Results |-> r.v],
                 err |-> IF s.ok /\ r.ok THEN Nil ELSE UnmarshalTypeErr]
      [] b.kind = "array" -> [v |-> ZeroEnvelope, err |-> UnmarshalTypeErr]
      [] OTHER            -> [v |-> ZeroEnvelope, err |-> SyntaxError]

-----------------------------------------------------------------------------
(* s[i] of Go (0-based): out of range panics *)
Index(s, i, zero) ==
    IF i >= 0 /\ i < Len(s)
    THEN [v |-> s[i + 1], panic |-> FALSE]
    ELSE [v |-> zero,     panic |-> TRUE]

(* The statements between the decode and the return, per operation: the   *)
(* value of the named result they leave, and whether an index panicked.   *)
GetMembersAssign(u) ==
    IF Len(u.Results) > 0
    THEN LET g == Index(u.Results, 0, ZeroGroup)
         IN  [members |-> g.v.Members, member |-> ZeroEntity, panic |-> g.panic]
    ELSE [members |-> <<>>, member |-> ZeroEntity, panic |-> FALSE]

\* GetMemberAssign without the test of len(unmarshaled.Results)
GetMemberAssignUnguarded(u) ==
    LET e == Index(u.Results, 0, ZeroEntity)
    IN  [members |-> <<>>, member |-> e.v, panic |-> e.panic]

GetMemberAssign(u) ==
    IF Len(u.Results) > 0
    THEN LET e == Index(u.Results, 0, ZeroEntity)
         IN  [members |-> <<>>, member |-> e.v, panic |-> e.panic]
    ELSE [members |-> <<>>, member |-> ZeroEntity, panic |-> FALSE]

GetChamberMembersByStateAssign(u) ==
    [members |-> u.Results, member |-> ZeroEntity, panic |-> FALSE]

\* GetChamberMembersByDistrictAssign losing the first entity
GetChamberMembersByDistrictTail(u) ==
    [members |-> IF Len(u.Results) > 0 THEN Tail(u.Results) ELSE <<>>,
     member |-> ZeroEntity, panic |-> FALSE]

GetChamberMembersByDistrictAssign(u) ==
    [members |-> u.Results, member |-> ZeroEntity, panic |-> FALSE]

\* GetNewMembersAssign taking the last group instead of the first
GetNewMembersLastGroup(u) ==
    IF Len(u.Results) > 0
    THEN [members |-> u.Results[Len(u.Results)].Members, member |-> ZeroEntity,
          panic |-> FALSE]
    ELSE [members |-> <<>>, member |-> ZeroEntity, panic |-> FALSE]

GetNewMembersAssign(u) ==
    IF Len(u.Results) > 0
    THEN LET g == Index(u.Results, 0, ZeroGroup)
         IN  [members |-> g.v.Members, member |-> ZeroEntity, panic |-> g.panic]
    ELSE [members |-> <<>>, member |-> ZeroEntity, panic |-> FALSE]

\* GetDepartingMembersAssign without its second statement
GetDepartingMembersFirstGroupOnly(u) ==
    IF Len(u.Results) > 0
    THEN [members |-> u.Results[1].Members, member |-> ZeroEntity, panic |-> FALSE]
    ELSE [members |-> <<>>, member |-> ZeroEntity, panic |-> FALSE]

GetDepartingMembersAssign(u) ==
    LET g0 == IF Len(u.Results) > 0
              THEN Index(u.Results, 0, ZeroGroup)
              ELSE [v |-> ZeroGroup, panic |-> FALSE]
        g1 == IF Len(u.Results) > 1
              THEN Index(u.Results, 1, ZeroGroup)
              ELSE [v |-> ZeroGroup, panic |-> FALSE]
    IN  [members |-> g0.v.Members \o g1.v.Members,
         member  |-> ZeroEntity,
         panic   |-> g0.panic \/ g1.panic]

Assign(o, u) ==
    CASE o = "GetMembers"                  -> GetMembersAssign(u)
      [] o = "GetMember"                   -> GetMemberAssign(u)
      [] o = "GetChamberMembersByState"    -> GetChamberMembersByStateAssign(u)
      [] o = "GetChamberMembersByDistrict" -> GetChamberMembersByDistrictAssign(u)
      [] o = "GetNewMembers"               -> GetNewMembersAssign(u)
      [] o = "GetDepartingMembers"         -> GetDepartingMembersAssign(u)

-----------------------------------------------------------------------------
(* The state a function body starts from: its locals and named results at *)
(* their zero values.                                                     *)
EnterBody(o, a) ==
    /\ op' = o
    /\ args' = a
    /\ pc' = "NewRequest"
    /\ req' = ZeroReq
    /\ resp' = ZeroResp
    /\ body' = EmptyBody
    /\ unmarshaled' = ZeroEnvelope
    /\ members' = <<>>
    /\ member' = ZeroEntity
    /\ err' = Nil

Init ==
    /\ c \in [Endpoint : Endpoints, Key : Keys]
    /\ op = ""
    /\ args = ZeroArgs
    /\ caller = "none"
    /\ pc = "idle"
    /\ req = ZeroReq
    /\ resp = ZeroResp
    /\ body = EmptyBody
    /\ unmarshaled = ZeroEnvelope
    /\ members = <<>>
    /\ member = ZeroEntity
    /\ err = Nil
    /\ panicked = FALSE
    /\ outer = ZeroRet
    /\ returned = <<>>
    /\ ret = ZeroRet
    /\ sent = <<>>
    /\ steps = <<>>

(* A caller invokes an operation of the client *)
Invoke(o, a) ==
    /\ pc = "idle"
    /\ EnterBody(o, a)
    /\ caller' = "none"
    /\ panicked' = FALSE
    /\ outer' = ZeroRet
    /\ returned' = <<>>
    /\ ret' = ZeroRet
    /\ sent' = <<>>
    /\ steps' = <<>>
    /\ UNCHANGED c

GetMembers ==
    \E congress \in Congresses, chamber \in Chambers :
        Invoke("GetMembers", [ZeroArgs EXCEPT !.congress = congress, !.chamber = chamber])

GetMember ==
    \E id \in MemberIDs :
        Invoke("GetMember", [ZeroArgs EXCEPT !.id = id])

GetChamberMembersByState ==
    \E state \in States, chamber \in Chambers :
        Invoke("GetChamberMembersByState",
               [ZeroArgs EXCEPT !.state = state, !.chamber = chamber])

GetChamberMembersByDistrict ==
    \E state \in States, district \in Districts, chamber \in Chambers :
        Invoke("GetChamberMembersByDistrict",
               [ZeroArgs EXCEPT !.state = state, !.district = district, !.chamber = chamber])

GetNewMembers ==
    Invoke("GetNewMembers", ZeroArgs)

GetDepartingMembers ==
    \E congress \in Congresses, chamber \in Chambers :
        Invoke("GetDepartingMembers",
               [ZeroArgs EXCEPT !.congress = congress, !.chamber = chamber])

(* req, err := http.NewRequest("GET", fmt.Sprintf(...), nil)              *)
(* if err != nil { return }; req.Header.Add("X-API-Key", c.Key)           *)
StepNewRequest ==
    /\ pc = "NewRequest"
    /\ LET r == NewRequest("GET", RequestURL(op, c, args))
       IN  /\ err' = r.err
           /\ req' = IF r.err = Nil THEN HeaderAdd(r.req, "X-API-Key", c.Key) ELSE r.req
           /\ pc' = ReturnIfErr(r.err, "Do")
           /\ steps' = Append(steps, [step |-> "NewRequest", err |-> r.err])
    /\ UNCHANGED <<c, op, args, caller, resp, body, unmarshaled, members, member,
                   panicked, outer, returned, ret, sent>>

\* StepDoFails trying the request again instead of returning
StepDoFailsRetries ==
    /\ pc = "Do"
    /\ sent' = Append(sent, req)
    /\ err' = TransportErr
    /\ pc' = "Do"
    /\ steps' = Append(steps, [step |-> "Do", err |-> TransportErr])
    /\ UNCHANGED <<c, op, args, caller, req, resp, body, unmarshaled, members, member,
                   panicked, outer, returned, ret>>

(* resp, err := client.Do(req): the network call fails *)
StepDoFails ==
    /\ pc = "Do"
    /\ sent' = Append(sent, req)
    /\ err' = TransportErr
    /\ pc' = ReturnIfErr(TransportErr, "ReadAll")
    /\ steps' = Append(steps, [step |-> "Do", err |-> TransportErr])
    /\ UNCHANGED <<c, op, args, caller, req, resp, body, unmarshaled, members, member,
                   panicked, outer, returned, ret>>

(* resp, err := client.Do(req): the server answers *)
StepDoResponds ==
    /\ pc = "Do"
    /\ sent' = Append(sent, req)
    /\ \E r \in Responses(Len(sent) + 1) : resp' = r
    /\ err' = Nil
    /\ pc' = ReturnIfErr(Nil, "ReadAll")
    /\ steps' = Append(steps, [step |-> "Do", err |-> Nil])
    /\ UNCHANGED <<c, op, args, caller, req, body, unmarshaled, members, member,
                   panicked, outer, returned, ret>>

\* StepReadAllFails without the test of err after it
StepReadAllFailsUnchecked ==
    /\ pc = "ReadAll"
    /\ err' = ReadError
    /\ pc' = "Unmarshal"
    /\ steps' = Append(steps, [step |-> "ReadAll", err |-> ReadError])
    /\ UNCHANGED <<c, op, args, caller, req, resp, body, unmarshaled, members, member,
                   panicked, outer, returned, ret, sent>>

(* body, err := ioutil.ReadAll(resp.Body): the read fails part-way *)
StepReadAllFails ==
    /\ pc = "ReadAll"
    /\ err' = ReadError
    /\ pc' = ReturnIfErr(ReadError, "Unmarshal")
    /\ steps' = Append(steps, [step |-> "ReadAll", err |-> ReadError])
    /\ UNCHANGED <<c, op, args, caller, req, resp, body, unmarshaled, members, member,
                   panicked, outer, returned, ret, sent>>

(* body, err := ioutil.ReadAll(resp.Body): the whole body is read *)
StepReadAll ==
    /\ pc = "ReadAll"
    /\ body' = ReadAll(resp)
    /\ err' = Nil
    /\ pc' = ReturnIfErr(Nil, "Unmarshal")
    /\ steps' = Append(steps, [step |-> "ReadAll", err |-> Nil])
    /\ UNCHANGED <<c, op, args, caller, req, resp, unmarshaled, members, member,
                   panicked, outer, returned, ret, sent>>

\* StepUnmarshal without the test of err after it
StepUnmarshalUnchecked ==
    /\ pc = "Unmarshal"
    /\ LET d == JsonUnmarshal(body, EnvelopeOf(op))
       IN  /\ unmarshaled' = d.v
           /\ err' = d.err
           /\ pc' = "Assign"
           /\ steps' = Append(steps, [step |-> "Unmarshal", err |-> d.err])
    /\ UNCHANGED <<c, op, args, caller, req, resp, body, members, member,
                   panicked, outer, returned, ret, sent>>

(* err = json.Unmarshal(body, &unmarshaled); if err != nil { return } *)
StepUnmarshal ==
    /\ pc = "Unmarshal"
    /\ LET d == JsonUnmarshal(body, EnvelopeOf(op))
       IN  /\ unmarshaled' = d.v
           /\ err' = d.err
           /\ pc' = ReturnIfErr(d.err, "Assign")
           /\ steps' = Append(steps, [step |-> "Unmarshal", err |-> d.err])
    /\ UNCHANGED <<c, op, args, caller, req, resp, body, members, member,
                   panicked, outer, returned, ret, sent>>

(* the assignment of the named result from unmarshaled.Results *)
StepAssign ==
    /\ pc = "Assign"
    /\ LET r == Assign(op, unmarshaled)
       IN  /\ members' = r.members
           /\ member' = r.member
           /\ panicked' = (panicked \/ r.panic)
    /\ pc' = "Return"
    /\ steps' = Append(steps, [step |-> "Assign", err |-> Nil])
    /\ UNCHANGED <<c, op, args, caller, req, resp, body, unmarshaled, err,
                   outer, returned, ret, sent>>

(* return: the named results go to the caller of the operation *)
Return ==
    /\ pc = "Return"
    /\ caller = "none"
    /\ ret' = [members |-> members, member |-> member, err |-> err]
    /\ pc' = "done"
    /\ UNCHANGED <<c, op, args, caller, req, resp, body, unmarshaled, members,
                   member, err, panicked, outer, returned, sent, steps>>

(* the caller takes the result; the client is ready for the next call *)
Reset ==
    /\ pc = "done"
    /\ pc' = "idle"
    /\ op' = ""
    /\ args' = ZeroArgs
    /\ caller' = "none"
    /\ req' = ZeroReq
    /\ resp' = ZeroResp
    /\ body' = EmptyBody
    /\ unmarshaled' = ZeroEnvelope
    /\ members' = <<>>
    /\ member' = ZeroEntity
    /\ err' = Nil
    /\ panicked' = FALSE
    /\ outer' = ZeroRet
    /\ returned' = <<>>
    /\ ret' = ZeroRet
    /\ sent' = <<>>
    /\ steps' = <<>>
    /\ UNCHANGED c

-----------------------------------------------------------------------------
(* GetMembersByState: two calls of GetChamberMembersByState *)

\* members, err = c.GetChamberMembersByState(state, "house")
AfterHouse(o, m, e) ==
    [o EXCEPT !.members = m, !.err = e]

\* AfterSenate appending in the wrong order
AfterSenatePrepends(o, senate, e) ==
    IF e # Nil
    THEN [o EXCEPT !.err = e]
    ELSE [o EXCEPT !.members = senate \o o.members, !.err = e]

\* senate, err := c.GetChamberMembersByState(state, "senate")
\* if err != nil { return }; members = append(members, senate...)
AfterSenate(o, senate, e) ==
    IF e # Nil
    THEN [o EXCEPT !.err = e]
    ELSE [o EXCEPT !.members = o.members \o senate, !.err = e]

GetMembersByState ==
    \E state \in States :
        /\ pc = "idle"
        /\ EnterBody("GetChamberMembersByState",
                     [ZeroArgs EXCEPT !.state = state, !.chamber = "house"])
        /\ caller' = "house"
        /\ panicked' = FALSE
        /\ outer' = ZeroRet
        /\ returned' = <<>>
        /\ ret' = ZeroRet
        /\ sent' = <<>>
        /\ steps' = <<>>
        /\ UNCHANGED c

(* the house call returns into GetMembersByState *)
ReturnToHouse ==
    /\ pc = "Return"
    /\ caller = "house"
    /\ returned' = Append(returned, [members |-> members, err |-> err])
    /\ outer' = AfterHouse(outer, members, err)
    /\ IF ReturnIfErr(err, "call") = "Return"
       THEN /\ ret' = outer'
            /\ pc' = "done"
            /\ UNCHANGED <<op, args, caller, req, resp, body, unmarshaled,
                           members, member, err>>
       ELSE /\ EnterBody("GetChamberMembersByState", [args EXCEPT !.chamber = "senate"])
            /\ caller' = "senate"
            /\ UNCHANGED ret
    /\ UNCHANGED <<c, panicked, sent, steps>>

(* the senate call returns into GetMembersByState, which returns *)
ReturnToSenate ==
    /\ pc = "Return"
    /\ caller = "senate"
    /\ returned' = Append(returned, [members |-> members, err |-> err])
    /\ outer' = AfterSenate(outer, members, err)
    /\ ret' = outer'
    /\ pc' = "done"
    /\ UNCHANGED <<c, op, args, caller, req, resp, body, unmarshaled, members,
                   member, err, panicked, sent, steps>>

Next ==
    \/ GetMembers
    \/ GetMember
    \/ GetChamberMembersByState
    \/ GetChamberMembersByDistrict
    \/ GetNewMembers
    \/ GetDepartingMembers
    \/ GetMembersByState
    \/ StepNewRequest
    \/ StepDoFails
    \/ StepDoResponds
    \/ StepReadAllFails
    \/ StepReadAll
    \/ StepUnmarshal
    \/ StepAssign
    \/ Return
    \/ ReturnToHouse
    \/ ReturnToSenate
    \/ Reset

Spec == Init /\ [][Next]_vars

-----------------------------------------------------------------------------
(* What the claims speak about *)

\* the IDs of a list of entities, in order
IDs(s) == [i \in 1..Len(s) |-> s[i].ID]

\* the number of elements of the body's "results" array
NumResults(b) == Len(b.results.elems)

\* the ids of the entities the body's "results" array lists, in order
ResultIDs(b) == [g \in 1..NumResults(b) |-> b.results.elems[g].id]

\* the ids inside the "members" array of the body's g-th results group
GroupIDs(b, g) ==
    LET m == b.results.elems[g].members
    IN  [i \in 1..Len(m.elems) |-> m.elems[i].id]

\* the ids of groups from..to, group after group
RECURSIVE GroupsIDs(_, _, _)
GroupsIDs(b, from, to) ==
    IF from > to THEN <<>> ELSE GroupIDs(b, from) \o GroupsIDs(b, from + 1, to)

\* whether the g-th results group carries a "members" array
HasMembers(b, g) == b.results.elems[g].members.t = "array"

Min(a, b) == IF a < b THEN a ELSE b

\* a single-call operation o has returned to its caller
Done(o) == pc = "done" /\ caller = "none" /\ op = o

\* GetMembersByState has returned to its caller
DoneByState == pc = "done" /\ caller # "none"

\* the step named n ran in this invocation and ended with error e
Ran(n, e) == \E i \in 1..Len(steps) : steps[i] = [step |-> n, err |-> e]

\* the step named n ran in this invocation and failed
Failed(n) == \E i \in 1..Len(steps) : steps[i].step = n /\ steps[i].err # Nil

-----------------------------------------------------------------------------
(* C1: when either sub-call of GetMembersByState fails, it returns a      *)
(* non-nil error and no entities, also when the house call had succeeded  *)
(* with entities before the senate call failed.                           *)
C1_FailureReturnsNoEntities ==
    (DoneByState /\ \E i \in 1..Len(returned) : returned[i].err # Nil)
        => (ret.err # Nil /\ ret.members = <<>>)

-----------------------------------------------------------------------------
(* C2, as claimed: GetDepartingMembers returns, for a decoded envelope of *)
(* N groups (any N), the members of every group, group after group.       *)
C2_AllGroupsConcatenated ==
    (Done("GetDepartingMembers") /\ ret.err = Nil)
        => IDs(ret.members) = GroupsIDs(body, 1, NumResults(body))

(* C2, amended: GetDepartingMembers returns the members of the first two  *)
(* groups (of the only group, of none), group after group, each in its    *)
(* own order; the groups after the second are left out.                   *)
C2_FirstTwoGroupsConcatenated ==
    (Done("GetDepartingMembers") /\ ret.err = Nil)
        => IDs(ret.members) = GroupsIDs(body, 1, Min(NumResults(body), 2))

C2_Witness ==
    /\ Done("GetDepartingMembers")
    /\ ret.err = Nil
    /\ NumResults(body) = 3
    /\ \A g \in 1..3 : HasMembers(body, g) /\ Len(GroupIDs(body, g)) = 2
    /\ Len(ret.members) = 4

-----------------------------------------------------------------------------
(* C3: GetMembers and GetNewMembers return, for a decoded envelope with   *)
(* at least one group, the members of the first group in their order, and *)
(* no member of a later group.                                            *)
C3_FirstGroupOnly ==
    ((Done("GetMembers") \/ Done("GetNewMembers")) /\ ret.err = Nil
        /\ NumResults(body) >= 1)
        => /\ IDs(ret.members) = GroupIDs(body, 1)
           /\ \A g \in 2..NumResults(body) :
                \A i \in 1..Len(GroupIDs(body, g)) :
                    \A j \in 1..Len(ret.members) :
                        ret.members[j].ID # GroupIDs(body, g)[i]

C3_Witness ==
    /\ Done("GetNewMembers")
    /\ ret.err = Nil
    /\ NumResults(body) = 3
    /\ \A g \in 1..3 : HasMembers(body, g) /\ Len(GroupIDs(body, g)) = 2
    /\ IDs(ret.members) = <<MemberID(1, 1, 1), MemberID(1, 1, 2)>>

-----------------------------------------------------------------------------
(* C4: GetChamberMembersByState and GetChamberMembersByDistrict return,   *)
(* for a decoded envelope, exactly the entities of "results", in order.   *)
C4_DirectList ==
    ((Done("GetChamberMembersByState") \/ Done("GetChamberMembersByDistrict"))
        /\ ret.err = Nil)
        => IDs(ret.members) = ResultIDs(body)

C4_Witness ==
    /\ Done("GetChamberMembersByDistrict")
    /\ ret.err = Nil
    /\ NumResults(body) = 3
    /\ IDs(ret.members) = <<EntityID(1, 1), EntityID(1, 2), EntityID(1, 3)>>

-----------------------------------------------------------------------------
SingleOps == {"GetMembers", "GetMember", "GetChamberMembersByState",
              "GetChamberMembersByDistrict", "GetNewMembers", "GetDepartingMembers"}

\* the operations whose results are groups holding a "members" list
GroupOps == {"GetMembers", "GetNewMembers", "GetDepartingMembers"}

\* a JSON envelope with nothing of a wrong type in it
ValidEnvelope(b) ==
    /\ b.kind = "object"
    /\ b.status \in {"string", "absent"}
    /\ b.results.t \in {"absent", "null", "array"}
    /\ \A g \in 1..NumResults(b) : b.results.elems[g].t = "object"

\* "results" is absent, null or the empty array
EmptyResults(b) == NumResults(b) = 0

\* "results" has groups and none of them carries a "members" list
NoGroupHasMembers(b) ==
    NumResults(b) >= 1 /\ \A g \in 1..NumResults(b) : ~HasMembers(b, g)

(* C5: a valid envelope whose results list is empty or absent, or whose   *)
(* results groups have no members list, gives every operation a nil error *)
(* and an empty result (the zero record for GetMember), and no operation  *)
(* ever indexes a results list out of its range.                          *)
C5_EmptyResultsAreNoError ==
    /\ ~panicked
    /\ \A o \in SingleOps :
        (Done(o) /\ Ran("ReadAll", Nil) /\ ValidEnvelope(body)
            /\ (EmptyResults(body) \/ (o \in GroupOps /\ NoGroupHasMembers(body))))
            => ret = ZeroRet

C5_Witness ==
    /\ Done("GetMember")
    /\ Ran("Assign", Nil)
    /\ ValidEnvelope(body)
    /\ body.results.t = "array"
    /\ EmptyResults(body)
    /\ ret = ZeroRet

-----------------------------------------------------------------------------
(* C6: when the body is not valid JSON or does not fit the envelope's     *)
(* types, a single-call operation returns the decoder's error and an      *)
(* empty result, whatever the decoder had filled in before it failed.     *)
C6_DecodeFailureReturnsNothing ==
    \A o \in SingleOps :
        (Done(o) /\ Failed("Unmarshal"))
            => /\ ret.err \in {SyntaxError, UnmarshalTypeErr}
               /\ ret.members = <<>>
               /\ ret.member = ZeroEntity

C6_Witness ==
    /\ Done("GetChamberMembersByState")
    /\ Ran("Unmarshal", UnmarshalTypeErr)
    /\ Len(unmarshaled.Results) = 3
    /\ unmarshaled.Results[1].ID = EntityID(1, 1)
    /\ ret = [ZeroRet EXCEPT !.err = UnmarshalTypeErr]

-----------------------------------------------------------------------------
\* the steps before the decode
TransportSteps == {"NewRequest", "Do", "ReadAll"}

(* C7: when building the request, the network call or the read of the     *)
(* body fails, a single-call operation returns that error with an empty   *)
(* result and json.Unmarshal is not executed: the decode runs only after a *)
(* request that succeeded and a body read to its end.                     *)
C7_NoDecodeAfterTransportFailure ==
    caller = "none" =>
        /\ \A i \in 1..Len(steps) :
            steps[i].step = "Unmarshal" =>
                /\ \E j \in 1..(i - 1) : steps[j] = [step |-> "Do", err |-> Nil]
                /\ \E j \in 1..(i - 1) : steps[j] = [step |-> "ReadAll", err |-> Nil]
                /\ \A j \in 1..(i - 1) : steps[j].err = Nil
        /\ \A i \in 1..Len(steps) :
            (pc = "done" /\ steps[i].step \in TransportSteps /\ steps[i].err # Nil)
                => /\ ret = [ZeroRet EXCEPT !.err = steps[i].err]
                   /\ \A j \in 1..Len(steps) : steps[j].step # "Unmarshal"

C7_Witness ==
    /\ Done("GetDepartingMembers")
    /\ Ran("ReadAll", ReadError)
    /\ NumResults(resp.Body) = 3
    /\ ~Ran("Unmarshal", Nil)
    /\ ret = [ZeroRet EXCEPT !.err = ReadError]

-----------------------------------------------------------------------------
\* the ids of the first k entities of response n
EntityIDs(n, k) == [g \in 1..k |-> EntityID(n, g)]

(* C8: when both its calls succeed, GetMembersByState has sent the house  *)
(* request before the senate request and returns the house entities       *)
(* followed by the senate entities, each list as its call returned it,    *)
(* with a nil error.                                                      *)
C8_HouseThenSenate ==
    (DoneByState /\ Len(returned) = 2 /\ returned[1].err = Nil /\ returned[2].err = Nil)
        => /\ ret.err = Nil
           /\ ret.members = returned[1].members \o returned[2].members
           /\ IDs(ret.members) = EntityIDs(1, Len(returned[1].members))
                                    \o EntityIDs(2, Len(returned[2].members))
           /\ Len(sent) = 2
           /\ sent[1].URL = c.Endpoint \o "/members/house/" \o args.state \o "/current.json"
           /\ sent[2].URL = c.Endpoint \o "/members/senate/" \o args.state \o "/current.json"

C8_Witness ==
    /\ DoneByState
    /\ ret.err = Nil
    /\ Len(returned) = 2
    /\ Len(returned[1].members) = 2
    /\ Len(returned[2].members) = 3
    /\ Len(ret.members) = 5

-----------------------------------------------------------------------------
\* what operation o returns for response r, the read of its body succeeding or not
Outcome(o, r, readOK) ==
    IF ~readOK
    THEN [ZeroRet EXCEPT !.err = ReadError]
    ELSE LET d == JsonUnmarshal(ReadAll(r), EnvelopeOf(o))
             a == Assign(o, d.v)
         IN  IF d.err # Nil
             THEN [ZeroRet EXCEPT !.err = d.err]
             ELSE [members |-> a.members, member |-> a.member, err |-> Nil]

(* C9: the status code of the response has no influence: whenever a       *)
(* single-call function body returns after a response, its results are    *)
(* the ones it returns for the same body under any other status code.     *)
C9_StatusCodeIgnored ==
    (pc = "Return" /\ resp # ZeroResp)
        => \A sc \in StatusCodes :
            [members |-> members, member |-> member, err |-> err]
                = Outcome(op, [resp EXCEPT !.StatusCode = sc], err # ReadError)

C9_Witness ==
    /\ pc = "Return"
    /\ resp.StatusCode = 500
    /\ err = Nil
    /\ Len(members) = 3

-----------------------------------------------------------------------------
\* the path template of each operation, filled with its parameters
PathOf(o, a) ==
    CASE o = "GetMembers" ->
            "/" \o FormatInt(a.congress) \o "/" \o a.chamber \o "/members.json"
      [] o = "GetMember" ->
            "/members/" \o a.id \o ".json"
      [] o = "GetChamberMembersByState" ->
            "/members/" \o a.chamber \o "/" \o a.state \o "/current.json"
      [] o = "GetChamberMembersByDistrict" ->
            "/members/" \o a.chamber \o "/" \o a.state \o "/" \o FormatInt(a.district)
                \o "/current.json"
      [] o = "GetNewMembers" ->
            "/members/new.json"
      [] o = "GetDepartingMembers" ->
            "/" \o FormatInt(a.congress) \o "/" \o a.chamber \o "/members/leaving.json"

\* the parameters of the call that sent the i-th request of the invocation
ArgsOfRequest(i) ==
    IF caller = "senate" /\ i = 1 THEN [args EXCEPT !.chamber = "house"] ELSE args

(* C10: every request sent, the two of GetMembersByState included, is a   *)
(* GET of Endpoint followed by the operation's path and carries the       *)
(* header X-API-Key with the client's Key.                                *)
C10_EveryRequestAuthenticated ==
    \A i \in 1..Len(sent) :
        /\ sent[i].Method = "GET"
        /\ sent[i].URL = c.Endpoint \o PathOf(op, ArgsOfRequest(i))
        /\ sent[i].Header = {<<"X-API-Key", c.Key>>}

C10_Witness ==
    /\ DoneByState
    /\ Len(sent) = 2
    /\ c.Key = "KEY2"
    /\ sent[1].Header = {<<"X-API-Key", "KEY2">>}
    /\ sent[2].Header = {<<"X-API-Key", "KEY2">>}

-----------------------------------------------------------------------------
(* C11: an invocation of a single-call operation sends at most one        *)
(* request, whether it succeeds or fails (nothing is retried); an         *)
(* invocation of GetMembersByState sends at most two requests, and        *)
(* exactly two when its house call succeeded.                             *)
C11_RequestsPerInvocation ==
    /\ caller = "none" => Len(sent) <= 1
    /\ caller # "none" => Len(sent) <= 2
    /\ (pc = "done" /\ caller = "none" /\ Failed("NewRequest")) => Len(sent) = 0
    /\ (pc = "done" /\ caller = "none" /\ ~Failed("NewRequest")) => Len(sent) = 1
    /\ (DoneByState /\ returned[1].err = Nil) => Len(sent) = 2
    /\ (DoneByState /\ returned[1].err # Nil) => Len(sent) <= 1

C11_Witness ==
    /\ DoneByState
    /\ Len(returned) = 2
    /\ returned[1].err = Nil
    /\ returned[2].err = TransportErr
    /\ Len(sent) = 2
    /\ sent[1].URL # sent[2].URL

====
